---- MODULE Spec2Model ----
(***************************************************************************)
(* The directory scanner of file_analyzer (src/main.py, src/base.py):      *)
(* get_file_tree / add_nodes / process_file_batch / get_file_info /        *)
(* get_file_hashes, and the Dash callback start_scan that runs a scan and  *)
(* writes its result to the stores.                                        *)
(*                                                                         *)
(* Python dicts are mutable objects that are shared between the tree, the  *)
(* flat list all_files and the duplicate index file_hashes.  They are      *)
(* modelled as entries of a heap (a sequence of records); an object is     *)
(* referred to by its address, its index in the heap.  The 'id' field of a *)
(* node is a separate field, computed from node_id_counter as in the code. *)
(*                                                                         *)
(* The filesystem is the environment.  It is revealed as the walk          *)
(* enumerates it (os.scandir is an iterator) and logged in fs, so that a   *)
(* scan of the same filesystem can be replayed.                            *)
(***************************************************************************)
EXTENDS Integers, Sequences, FiniteSets, TLC

\* ------------------------------------------------------------------ bounds
MaxEntries == 3        \* directory entries in the whole filesystem
MaxFaults == 1         \* failing operations (scandir, iteration, open, stat)
MaxContent == 1        \* file contents are 0..MaxContent; 0 is the empty file
MaxFlatFiles == 11     \* files of the single directory of SpecBatch
MaxScans == 2          \* scans of SpecApp after the initial callback
AppEntries == 2        \* directory entries in the filesystem of SpecApp
FairEntries == 2       \* directory entries in the filesystem of FairSpec
ViewEntries == 3       \* directory entries in the filesystem of SpecView
MaxTicks == 2          \* seconds that pass in SpecInfo
MaxRuns == 3           \* runs of get_file_info in SpecInfo

\* --------------------------------------------------------- program constants
DefaultBatchSize == 10
BatchSizes == {1, 2, DefaultBatchSize}
OldDays == 5 * 365
Day == 24 * 60 * 60
LargeBytes == 100 * 1024 * 1024

None == [type |-> "None"]

\* Paths are sequences (strings): the empty input, a path that does not
\* exist, and the root that does.
EmptyInput == <<>>
RootDir == <<0>>
MissingDir == <<1>>
Directories == {EmptyInput, RootDir, MissingDir}

\* -------------------------------------------------------------- environment
\* One directory entry as os.scandir yields it.  content, hash_ok, stat_ok
\* and age matter for regular files only; age is the time in seconds from the
\* file's last modification to the reading of the clock in get_file_info.
Entry(kind, name, content, hash_ok, stat_ok, age) ==
    [kind |-> kind, name |-> name, content |-> content,
     hash_ok |-> hash_ok, stat_ok |-> stat_ok, age |-> age]

EntryKinds == {"dir", "file", "symlink", "other"}
\* A symbolic link stands for every entry that is neither a directory nor a
\* regular file when links are not followed.
WalkKinds == {"dir", "file", "symlink"}

\* The listing of a directory: whether os.scandir succeeds, the entries the
\* iterator yields, and how the iteration ends ("open": not yet known).
Listing(scandir_ok) == [scandir_ok |-> scandir_ok, entries |-> <<>>, end |-> "open"]

Parent(path) == SubSeq(path, 1, Len(path) - 1)
Basename(path) == path[Len(path)]
Join(path, name) == Append(path, name)

LookupEntry(fsv, filepath) ==
    LET es == fsv[Parent(filepath)].entries
    IN es[CHOOSE i \in 1..Len(es) : es[i].name = Basename(filepath)]

os_path_exists(directory) == directory = RootDir

\* DirEntry.is_dir() with its default follow_symlinks=True, for a link to a
\* directory.
is_dir_follows_symlinks(entry) == entry.kind \in {"dir", "symlink"}

\* DirEntry.is_dir(follow_symlinks=False), DirEntry.is_file(follow_symlinks=False)
is_dir(entry) == entry.kind = "dir"
is_file(entry) == entry.kind = "file"

\* A file of content c has c bytes; hashlib.md5 is taken to be injective.
SizeOf(content) == content
md5_hexdigest(content) == [md5 |-> content]

\* os.stat(filepath): fails, or gives the size and the modification time,
\* here as the seconds that datetime.now() - last_modified will give.
os_stat(fsv, filepath) ==
    LET e == LookupEntry(fsv, filepath)
    IN [ok |-> e.stat_ok, st_size |-> SizeOf(e.content), age_seconds |-> e.age]

\* timedelta.days: the whole days of a difference of times, rounded down.
timedelta_days(seconds) == seconds \div Day

\* ------------------------------------------------------------ pure functions
\* get_file_info that advances the counter even when os.stat raises.
get_file_info_keeps_id(filepath, st, node_id_counter) ==
    IF ~st.ok THEN [info |-> None, node_id_counter |-> node_id_counter + 1]
    ELSE [info |-> [name |-> Basename(filepath), path |-> filepath,
                    size |-> st.st_size, last_modified |-> st.age_seconds,
                    hash |-> None, type |-> "file", id |-> node_id_counter,
                    is_duplicate |-> FALSE,
                    is_old |-> timedelta_days(st.age_seconds) > OldDays,
                    is_large |-> st.st_size > LargeBytes,
                    is_empty |-> st.st_size = 0],
          node_id_counter |-> node_id_counter + 1]

\* get_file_info with "size >= 100 * 1024 * 1024" for is_large.
get_file_info_large_inclusive(filepath, st, node_id_counter) ==
    IF ~st.ok THEN [info |-> None, node_id_counter |-> node_id_counter]
    ELSE [info |-> [name |-> Basename(filepath), path |-> filepath,
                    size |-> st.st_size, last_modified |-> st.age_seconds,
                    hash |-> None, type |-> "file", id |-> node_id_counter,
                    is_duplicate |-> FALSE,
                    is_old |-> timedelta_days(st.age_seconds) > OldDays,
                    is_large |-> st.st_size >= LargeBytes,
                    is_empty |-> st.st_size = 0],
          node_id_counter |-> node_id_counter + 1]

\* get_file_info with is_old taken from total_seconds() instead of days.
get_file_info_old_by_seconds(filepath, st, node_id_counter) ==
    IF ~st.ok THEN [info |-> None, node_id_counter |-> node_id_counter]
    ELSE [info |-> [name |-> Basename(filepath), path |-> filepath,
                    size |-> st.st_size, last_modified |-> st.age_seconds,
                    hash |-> None, type |-> "file", id |-> node_id_counter,
                    is_duplicate |-> FALSE,
                    is_old |-> st.age_seconds > OldDays * Day,
                    is_large |-> st.st_size > LargeBytes,
                    is_empty |-> st.st_size = 0],
          node_id_counter |-> node_id_counter + 1]

\* get_file_info: None when os.stat raises; otherwise the record of the file,
\* with the id taken from the counter, which is then incremented.
get_file_info(filepath, st, node_id_counter) ==
    IF ~st.ok THEN [info |-> None, node_id_counter |-> node_id_counter]
    ELSE [info |-> [name |-> Basename(filepath), path |-> filepath,
                    size |-> st.st_size, last_modified |-> st.age_seconds,
                    hash |-> None, type |-> "file", id |-> node_id_counter,
                    is_duplicate |-> FALSE,
                    is_old |-> timedelta_days(st.age_seconds) > OldDays,
                    is_large |-> st.st_size > LargeBytes,
                    is_empty |-> st.st_size = 0],
          node_id_counter |-> node_id_counter + 1]

\* get_file_hashes that does not read a file of no bytes and gives it None.
get_file_hashes_skips_empty(fsv, filepaths) ==
    [i \in 1..Len(filepaths) |->
        LET e == LookupEntry(fsv, filepaths[i])
        IN <<filepaths[i],
             IF e.hash_ok /\ SizeOf(e.content) # 0 THEN md5_hexdigest(e.content) ELSE None>>]

\* get_file_hashes: the dict filepath -> digest (None when reading fails), in
\* the order of filepaths (the paths of one batch are pairwise distinct).
get_file_hashes(fsv, filepaths) ==
    [i \in 1..Len(filepaths) |->
        LET e == LookupEntry(fsv, filepaths[i])
        IN <<filepaths[i], IF e.hash_ok THEN md5_hexdigest(e.content) ELSE None>>]

\* ------------------------------------------------------------------ walker
\* The state of one call of get_file_tree is a record w:
\*   node_id_counter, heap, tree (address of the root node), file_hashes
\*   (digest -> address), duplicate_files, all_files (addresses), batch_size,
\*   stack (the activations of add_nodes, innermost last) and returned.
\* An activation of add_nodes: the address of its node, the number of entries
\* consumed, files_to_hash, and its position pc:
\*   "scandir"  about to call os.scandir (line 47)
\*   "for"      at the head of the loop over the entries (line 49)
\*   "call"     inside the recursive call add_nodes(dir_node) (line 59)
\*   "hashes"   process_file_batch entered, about to call get_file_hashes
\*   "batch"    in the loop of process_file_batch, at element j of batch_hashes
\*   "return"   add_nodes is returning (normally or through an except clause)
\* flush tells which call of process_file_batch is running: "full" (line 65)
\* or "tail" (line 69).
Frame(node) ==
    [node |-> node, pos |-> 0, files_to_hash |-> <<>>, pc |-> "scandir",
     flush |-> "none", batch_hashes |-> <<>>, j |-> 0]

Top(w) == w.stack[Len(w.stack)]
SetTop(w, f) == [w EXCEPT !.stack[Len(w.stack)] = f]

\* get_file_tree, lines 30-43 and the call add_nodes(tree) of line 76.
get_file_tree(root_dir, batch_size) ==
    LET c0 == 0
        tree == [name |-> Basename(root_dir), path |-> root_dir, children |-> <<>>,
                 type |-> "directory", id |-> c0]
    IN [node_id_counter |-> c0 + 1,
        heap |-> <<tree>>,
        tree |-> 1,
        file_hashes |-> <<>>,
        duplicate_files |-> <<>>,
        all_files |-> <<>>,
        batch_size |-> batch_size,
        stack |-> <<Frame(1)>>,
        returned |-> FALSE]

\* add_nodes whose except clauses raise again: the exception of os.scandir
\* leaves every activation and get_file_tree itself, which never returns.
add_nodes_scandir_reraises(w, ok) ==
    IF ok THEN SetTop(w, [Top(w) EXCEPT !.pc = "for", !.files_to_hash = <<>>])
    ELSE [w EXCEPT !.stack = <<>>]

\* add_nodes with os.scandir called outside the try block: the exception
\* leaves the activation and is caught in the caller's except clause.
add_nodes_scandir_uncaught(w, ok) ==
    IF ok THEN SetTop(w, [Top(w) EXCEPT !.pc = "for", !.files_to_hash = <<>>])
    ELSE IF Len(w.stack) > 1
    THEN [w EXCEPT !.stack = [SubSeq(@, 1, Len(@) - 1) EXCEPT ![Len(@) - 1].pc = "return"]]
    ELSE SetTop(w, [Top(w) EXCEPT !.pc = "return"])

\* add_nodes, lines 46-48 and the except clauses: os.scandir succeeds or raises.
add_nodes_scandir(w, ok) ==
    IF ok THEN SetTop(w, [Top(w) EXCEPT !.pc = "for", !.files_to_hash = <<>>])
    ELSE SetTop(w, [Top(w) EXCEPT !.pc = "return"])

\* The end of the loop without the flush of lines 68-69.
add_nodes_stop_drops_tail(w) == SetTop(w, [Top(w) EXCEPT !.pc = "return"])

\* add_nodes, lines 68-69: the entries are exhausted.
add_nodes_stop(w) ==
    LET f == Top(w)
    IN IF f.files_to_hash # <<>>
       THEN SetTop(w, [f EXCEPT !.pc = "hashes", !.flush = "tail"])
       ELSE SetTop(w, [f EXCEPT !.pc = "return"])

\* add_nodes that hands the pending files to process_file_batch before it
\* goes into a subdirectory; the entry is taken up again after the batch.
add_nodes_dir_flushes_first(w, entry) ==
    LET f == Top(w)
        dir_node == [name |-> entry.name,
                     path |-> Join(w.heap[f.node].path, entry.name),
                     children |-> <<>>, type |-> "directory",
                     id |-> w.node_id_counter]
        a == Len(w.heap) + 1
    IN IF f.files_to_hash # <<>>
       THEN SetTop(w, [f EXCEPT !.pc = "hashes", !.flush = "full"])
       ELSE [w EXCEPT !.heap = Append(@, dir_node),
                      !.node_id_counter = @ + 1,
                      !.stack = Append([@ EXCEPT ![Len(@)] =
                                          [f EXCEPT !.pos = @ + 1, !.pc = "call"]],
                                       Frame(a))]

\* add_nodes without line 58: the counter stays when a directory node is made.
add_nodes_dir_no_increment(w, entry) ==
    LET f == Top(w)
        dir_node == [name |-> entry.name,
                     path |-> Join(w.heap[f.node].path, entry.name),
                     children |-> <<>>, type |-> "directory",
                     id |-> w.node_id_counter]
        a == Len(w.heap) + 1
    IN [w EXCEPT !.heap = Append(@, dir_node),
                 !.stack = Append([@ EXCEPT ![Len(@)] =
                                     [f EXCEPT !.pos = @ + 1, !.pc = "call"]],
                                  Frame(a))]

\* add_nodes, lines 51-59: a subdirectory.  Its node is created and add_nodes
\* is called on it; line 60 runs when that call returns (add_nodes_return).
add_nodes_dir(w, entry) ==
    LET f == Top(w)
        dir_node == [name |-> entry.name,
                     path |-> Join(w.heap[f.node].path, entry.name),
                     children |-> <<>>, type |-> "directory",
                     id |-> w.node_id_counter]
        a == Len(w.heap) + 1
    IN [w EXCEPT !.heap = Append(@, dir_node),
                 !.node_id_counter = @ + 1,
                 !.stack = Append([@ EXCEPT ![Len(@)] =
                                     [f EXCEPT !.pos = @ + 1, !.pc = "call"]],
                                  Frame(a))]

\* add_nodes, lines 62-66: a regular file joins the batch, which is handed to
\* process_file_batch when it has batch_size paths.
add_nodes_file(w, entry) ==
    LET f == Top(w)
        files == Append(f.files_to_hash, Join(w.heap[f.node].path, entry.name))
    IN IF Len(files) >= w.batch_size
       THEN SetTop(w, [f EXCEPT !.pos = @ + 1, !.files_to_hash = files,
                                !.pc = "hashes", !.flush = "full"])
       ELSE SetTop(w, [f EXCEPT !.pos = @ + 1, !.files_to_hash = files])

\* add_nodes, lines 49-74: one turn of the loop over the entries.  o is what
\* the iterator gives: an entry, the end of the iteration ("stop") or an
\* exception ("error"), which the except clauses of lines 71-74 catch.
add_nodes_for(w, o) ==
    CASE o.kind = "stop" -> add_nodes_stop(w)
      [] o.kind = "error" -> SetTop(w, [Top(w) EXCEPT !.pc = "return"])
      [] OTHER ->
            IF is_dir(o) THEN add_nodes_dir(w, o)
            ELSE IF is_file(o) THEN add_nodes_file(w, o)
            ELSE SetTop(w, [Top(w) EXCEPT !.pos = @ + 1])

\* process_file_batch with a duplicate index of its own, empty at every call.
process_file_batch_hashes_own_index(w, fsv) ==
    LET f == Top(w)
        w1 == [w EXCEPT !.file_hashes = <<>>]
    IN SetTop(w1, [f EXCEPT !.batch_hashes = get_file_hashes(fsv, f.files_to_hash),
                            !.j = 1, !.pc = "batch"])

\* process_file_batch, line 80.
process_file_batch_hashes(w, fsv) ==
    LET f == Top(w)
    IN SetTop(w, [f EXCEPT !.batch_hashes = get_file_hashes(fsv, f.files_to_hash),
                           !.j = 1, !.pc = "batch"])

\* The duplicate index without the test "if file_hash:" of line 86.
observe_indexes_none(w, a, file_hash) ==
    IF file_hash \in DOMAIN w.file_hashes
    THEN LET original_file == w.file_hashes[file_hash]
         IN [w EXCEPT !.heap[a].is_duplicate = TRUE,
                      !.heap[original_file].is_duplicate = TRUE,
                      !.duplicate_files = Append(@, <<a, original_file>>)]
    ELSE [w EXCEPT !.file_hashes = (file_hash :> a) @@ @]

\* The duplicate index with line 90 left out: the stored original keeps its flag.
observe_original_unflagged(w, a, file_hash) ==
    IF file_hash # None
    THEN IF file_hash \in DOMAIN w.file_hashes
         THEN LET original_file == w.file_hashes[file_hash]
              IN [w EXCEPT !.heap[a].is_duplicate = TRUE,
                           !.duplicate_files = Append(@, <<a, original_file>>)]
         ELSE [w EXCEPT !.file_hashes = (file_hash :> a) @@ @]
    ELSE w

\* The duplicate index in which a duplicate takes the place of the original.
observe_replaces_original(w, a, file_hash) ==
    IF file_hash # None
    THEN IF file_hash \in DOMAIN w.file_hashes
         THEN LET original_file == w.file_hashes[file_hash]
              IN [w EXCEPT !.heap[a].is_duplicate = TRUE,
                           !.heap[original_file].is_duplicate = TRUE,
                           !.duplicate_files = Append(@, <<a, original_file>>),
                           !.file_hashes[file_hash] = a]
         ELSE [w EXCEPT !.file_hashes = (file_hash :> a) @@ @]
    ELSE w

\* process_file_batch, lines 86-93: the duplicate index.  a is the address of
\* file_info.
observe(w, a, file_hash) ==
    IF file_hash # None
    THEN IF file_hash \in DOMAIN w.file_hashes
         THEN LET original_file == w.file_hashes[file_hash]
              IN [w EXCEPT !.heap[a].is_duplicate = TRUE,
                           !.heap[original_file].is_duplicate = TRUE,
                           !.duplicate_files = Append(@, <<a, original_file>>)]
         ELSE [w EXCEPT !.file_hashes = (file_hash :> a) @@ @]
    ELSE w

\* The loop body with all_files.append moved under "if file_hash:".
process_file_lists_hashed_only(w, node, filepath, file_hash, st) ==
    LET r == get_file_info(filepath, st, w.node_id_counter)
        file_info == r.info
        a == Len(w.heap) + 1
    IN IF file_info # None
       THEN LET w1 == [w EXCEPT !.node_id_counter = r.node_id_counter,
                                !.heap = Append(@, file_info),
                                !.all_files = IF file_hash # None THEN Append(@, a) ELSE @]
                w2 == observe(w1, a, file_hash)
            IN [w2 EXCEPT !.heap[node].children = Append(@, a)]
       ELSE [w EXCEPT !.node_id_counter = r.node_id_counter]

\* process_file_batch, lines 83-94: one turn of the loop over batch_hashes.
process_file(w, node, filepath, file_hash, st) ==
    LET r == get_file_info(filepath, st, w.node_id_counter)
        file_info == r.info
        a == Len(w.heap) + 1
    IN IF file_info # None
       THEN LET w1 == [w EXCEPT !.node_id_counter = r.node_id_counter,
                                !.heap = Append(@, file_info),
                                !.all_files = Append(@, a)]
                w2 == observe(w1, a, file_hash)
            IN [w2 EXCEPT !.heap[node].children = Append(@, a)]
       ELSE [w EXCEPT !.node_id_counter = r.node_id_counter]

\* process_file_batch, the loop of lines 82-94, and its return to add_nodes:
\* line 66 after the call of line 65, the end of add_nodes after line 69.
process_file_batch_step(w, fsv) ==
    LET f == Top(w) IN
    IF f.j <= Len(f.batch_hashes)
    THEN LET filepath == f.batch_hashes[f.j][1]
             file_hash == f.batch_hashes[f.j][2]
             w1 == process_file(w, f.node, filepath, file_hash, os_stat(fsv, filepath))
         IN SetTop(w1, [f EXCEPT !.j = @ + 1])
    ELSE IF f.flush = "full"
         THEN SetTop(w, [f EXCEPT !.files_to_hash = <<>>, !.batch_hashes = <<>>,
                                  !.j = 0, !.flush = "none", !.pc = "for"])
         ELSE SetTop(w, [f EXCEPT !.batch_hashes = <<>>, !.j = 0, !.flush = "none",
                                  !.pc = "return"])

\* process_file_batch(filepaths, node, ...) from its call to its return, for
\* the activation of add_nodes on top of the stack.
RECURSIVE process_file_batch_loop(_, _)
process_file_batch_loop(w, fsv) ==
    IF Top(w).j <= Len(Top(w).batch_hashes)
    THEN process_file_batch_loop(process_file_batch_step(w, fsv), fsv)
    ELSE w

process_file_batch(w, fsv, filepaths) ==
    process_file_batch_loop(
        process_file_batch_hashes(SetTop(w, [Top(w) EXCEPT !.files_to_hash = filepaths]), fsv),
        fsv)

\* The return of add_nodes: into line 60 of the calling activation, or, for
\* the root, into line 77 of get_file_tree.
add_nodes_return(w) ==
    LET f == Top(w)
        n == Len(w.stack)
    IN IF n > 1
       THEN LET parent == w.stack[n - 1]
            IN [w EXCEPT !.heap[parent.node].children = Append(@, f.node),
                         !.stack = [SubSeq(@, 1, n - 1) EXCEPT ![n - 1].pc = "for"]]
       ELSE [w EXCEPT !.stack = <<>>, !.returned = TRUE]

\* What the logged filesystem fsv gives the activation on top of the stack.
ScandirOutcome(w, fsv) == fsv[w.heap[Top(w).node].path].scandir_ok
ForOutcome(w, fsv) ==
    LET l == fsv[w.heap[Top(w).node].path]
    IN IF Top(w).pos < Len(l.entries) THEN l.entries[Top(w).pos + 1]
       ELSE [kind |-> l.end]

\* One step of the walk over a filesystem that is known.
WalkStep(w, fsv) ==
    LET pc0 == Top(w).pc IN
    CASE pc0 = "scandir" -> add_nodes_scandir(w, ScandirOutcome(w, fsv))
      [] pc0 = "for" -> add_nodes_for(w, ForOutcome(w, fsv))
      [] pc0 = "hashes" -> process_file_batch_hashes(w, fsv)
      [] pc0 = "batch" -> process_file_batch_step(w, fsv)
      [] pc0 = "return" -> add_nodes_return(w)

RECURSIVE Walk(_, _)
Walk(w, fsv) == IF w.returned THEN w ELSE Walk(WalkStep(w, fsv), fsv)

\* get_file_tree(root_dir, batch_size) run to its return on the filesystem fsv.
Scan(fsv, root_dir, batch_size) == Walk(get_file_tree(root_dir, batch_size), fsv)
\* ------------------------------------------------- the scanner of src/base.py
\* base.py has the scanner of main.py without all_files: get_file_tree (lines
\* 29-76) returns the tree alone, and process_file_batch (lines 78-92) has no
\* list to append to.  add_nodes, get_file_info and get_file_hashes are the
\* same, line for line.  The state of a call is the record w without the
\* field all_files.
base_get_file_tree(root_dir_, batch_size_) ==
    LET c0 == 0
        tree_ == [name |-> Basename(root_dir_), path |-> root_dir_, children |-> <<>>,
                  type |-> "directory", id |-> c0]
    IN [node_id_counter |-> c0 + 1,
        heap |-> <<tree_>>,
        tree |-> 1,
        file_hashes |-> <<>>,
        duplicate_files |-> <<>>,
        batch_size |-> batch_size_,
        stack |-> <<Frame(1)>>,
        returned |-> FALSE]

\* The loop body of base.py that leaves out a file that has no digest.
base_process_file_skips_unhashed(w, node, filepath, file_hash, st) ==
    LET r == get_file_info(filepath, st, w.node_id_counter)
        file_info == r.info
        a == Len(w.heap) + 1
    IN IF file_info # None /\ file_hash # None
       THEN LET w1 == [w EXCEPT !.node_id_counter = r.node_id_counter,
                                !.heap = Append(@, file_info)]
                w2 == observe(w1, a, file_hash)
            IN [w2 EXCEPT !.heap[node].children = Append(@, a)]
       ELSE w

\* base.py process_file_batch, lines 81-92: one turn of the loop.
base_process_file(w, node, filepath, file_hash, st) ==
    LET r == get_file_info(filepath, st, w.node_id_counter)
        file_info == r.info
        a == Len(w.heap) + 1
    IN IF file_info # None
       THEN LET w1 == [w EXCEPT !.node_id_counter = r.node_id_counter,
                                !.heap = Append(@, file_info)]
                w2 == observe(w1, a, file_hash)
            IN [w2 EXCEPT !.heap[node].children = Append(@, a)]
       ELSE [w EXCEPT !.node_id_counter = r.node_id_counter]

\* base.py process_file_batch, the loop and its return to add_nodes.
base_process_file_batch_step(w, fsv) ==
    LET f == Top(w) IN
    IF f.j <= Len(f.batch_hashes)
    THEN LET filepath == f.batch_hashes[f.j][1]
             file_hash == f.batch_hashes[f.j][2]
             w1 == base_process_file(w, f.node, filepath, file_hash, os_stat(fsv, filepath))
         IN SetTop(w1, [f EXCEPT !.j = @ + 1])
    ELSE IF f.flush = "full"
         THEN SetTop(w, [f EXCEPT !.files_to_hash = <<>>, !.batch_hashes = <<>>,
                                  !.j = 0, !.flush = "none", !.pc = "for"])
         ELSE SetTop(w, [f EXCEPT !.batch_hashes = <<>>, !.j = 0, !.flush = "none",
                                  !.pc = "return"])

base_WalkStep(w, fsv) ==
    LET pc0 == Top(w).pc IN
    CASE pc0 = "scandir" -> add_nodes_scandir(w, ScandirOutcome(w, fsv))
      [] pc0 = "for" -> add_nodes_for(w, ForOutcome(w, fsv))
      [] pc0 = "hashes" -> process_file_batch_hashes(w, fsv)
      [] pc0 = "batch" -> base_process_file_batch_step(w, fsv)
      [] pc0 = "return" -> add_nodes_return(w)

RECURSIVE base_Walk(_, _)
base_Walk(w, fsv) == IF w.returned THEN w ELSE base_Walk(base_WalkStep(w, fsv), fsv)

\* base.py get_file_tree(root_dir, batch_size) run to its return on fsv.
base_Scan(fsv, root_dir_, batch_size_) == base_Walk(base_get_file_tree(root_dir_, batch_size_), fsv)
\* ------------------------------------------------------- consumers of a tree
RECURSIVE SumSeq(_)
SumSeq(q) == IF q = <<>> THEN 0 ELSE q[1] + SumSeq(Tail(q))

\* count_files(node), on the node at address a of heap h.
RECURSIVE count_files(_, _)
count_files(h, a) ==
    IF h[a].type = "file" THEN 1
    ELSE IF h[a].type = "directory"
    THEN SumSeq([i \in 1..Len(h[a].children) |-> count_files(h, h[a].children[i])])
    ELSE 0

\* The value Dash stores for a node: the JSON of the dict, children nested.
RECURSIVE ToJson(_, _)
ToJson(h, a) ==
    IF h[a].type = "directory"
    THEN [name |-> h[a].name, path |-> h[a].path, type |-> "directory", id |-> h[a].id,
          children |-> [i \in 1..Len(h[a].children) |-> ToJson(h, h[a].children[i])]]
    ELSE h[a]

ListToJson(h, addrs) == [i \in 1..Len(addrs) |-> h[addrs[i]]]

\* The concatenation of the sequences of a sequence.
RECURSIVE Flatten(_)
Flatten(qq) == IF qq = <<>> THEN <<>> ELSE qq[1] \o Flatten(Tail(qq))

\* Python values of different types that the code compares or converts: an
\* int n, the string of its decimal digits, and None.  Values of different
\* types are unequal.
PyInt(n) == [py |-> "int", v |-> n]
PyStr(n) == [py |-> "str", v |-> n]
PyNone == [py |-> "None", v |-> 0]
str(x) == IF x.py = "int" THEN PyStr(x.v) ELSE x

\* The objects of a scan result as a consumer holds them: the dicts that
\* get_file_tree returned, or the dicts decoded from the stores' JSON.
Objects(h) == [a \in 1..Len(h) |-> [h[a] EXCEPT !.id = PyInt(@)]]

\* No object: the None that find_node_by_id returns.
NoNode == 0

\* find_node_by_id whose loop returns the result of the first child.
RECURSIVE find_node_by_id_first_child(_, _, _)
find_node_by_id_first_child(h, a, node_id) ==
    IF h[a].id = node_id THEN a
    ELSE IF h[a].type = "directory" /\ h[a].children # <<>>
    THEN find_node_by_id_first_child(h, h[a].children[1], node_id)
    ELSE NoNode

\* find_node_by_id(node, node_id), lines 841-849, on the node at address a:
\* the address of the node found, NoNode for None.  find_in_children is the
\* loop of lines 845-848 from child i on.
RECURSIVE find_node_by_id(_, _, _), find_in_children(_, _, _, _)
find_node_by_id(h, a, node_id) ==
    IF h[a].id = node_id THEN a
    ELSE IF h[a].type = "directory" THEN find_in_children(h, h[a].children, 1, node_id)
    ELSE NoNode

find_in_children(h, children, i, node_id) ==
    IF i > Len(children) THEN NoNode
    ELSE LET result == find_node_by_id(h, children[i], node_id)
         IN IF result # NoNode THEN result
            ELSE find_in_children(h, children, i + 1, node_id)

\* build_elements, lines 190-205: the colour of a node.
background_color(node) ==
    IF node.type = "file"
    THEN IF node.is_duplicate THEN "red"
         ELSE IF node.is_empty THEN "grey"
         ELSE IF node.is_old THEN "orange"
         ELSE IF node.is_large THEN "purple"
         ELSE "green"
    ELSE "#58a6ff"

\* build_elements(node, parent_id, elements), lines 185-234, on the node at
\* address a: line 189 replaces the node's id by its string.  The result is
\* the objects after the call and the list elements (of 'data', the fields
\* id, label, type and background_color).  build_elements_children is the
\* loop of lines 231-232 from child i on.
RECURSIVE build_elements(_, _, _, _), build_elements_children(_, _, _, _, _)
build_elements(h, a, parent_id, elements) ==
    LET current_id == h[a].id
        h1 == [h EXCEPT ![a].id = str(current_id)]
        e1 == Append(elements,
                     [data |-> [id |-> h1[a].id, label |-> h1[a].name, type |-> h1[a].type,
                                background_color |-> background_color(h1[a])]])
        e2 == IF parent_id # PyNone
              THEN Append(e1, [data |-> [source |-> str(parent_id), target |-> h1[a].id]])
              ELSE e1
    IN IF h1[a].type = "directory"
       THEN build_elements_children(h1, h1[a].children, 1, current_id, e2)
       ELSE [heap |-> h1, elements |-> e2]

build_elements_children(h, children, i, current_id, elements) ==
    IF i > Len(children) THEN [heap |-> h, elements |-> elements]
    ELSE LET r == build_elements(h, children[i], current_id, elements)
         IN build_elements_children(r.heap, children, i + 1, current_id, r.elements)

\* build_file_hierarchy(node), lines 237-333: the node_id of the items, in the
\* order of the items.
RECURSIVE build_file_hierarchy(_, _)
build_file_hierarchy(h, a) ==
    <<h[a].id>> \o
    (IF h[a].type = "directory"
     THEN Flatten([i \in 1..Len(h[a].children) |-> build_file_hierarchy(h, h[a].children[i])])
     ELSE <<>>)

\* build_analysis_content(all_files), lines 518-522: the metrics.
build_analysis_content(files) ==
    [total_files |-> Len(files),
     duplicate_files |-> Len(SelectSeq(files, LAMBDA f : f.is_duplicate)),
     old_files |-> Len(SelectSeq(files, LAMBDA f : f.is_old)),
     large_files |-> Len(SelectSeq(files, LAMBDA f : f.is_large)),
     empty_files |-> Len(SelectSeq(files, LAMBDA f : f.is_empty))]

\* start_scan without the test of os.path.exists.
start_scan_branch_unchecked(clicks, dir) ==
    IF clicks > 0 /\ dir # <<>> THEN "scan" ELSE "noop"

\* start_scan, lines 405-408 and 424-425: which branch is taken.
start_scan_branch(clicks, dir) ==
    IF clicks > 0 /\ dir # <<>>
    THEN IF ~os_path_exists(dir) THEN "missing" ELSE "scan"
    ELSE "noop"

\* The empty statistics message.
NoStats == [text |-> ""]

\* The five outputs of start_scan.
Outputs(text, stats, tree_data, files_data, complete) ==
    [loading_text |-> text, scan_stats |-> stats, file_tree_store |-> tree_data,
     all_files_store |-> files_data, analysis_complete |-> complete]

\* The returns that do not scan, the error return reporting completion.
start_scan_no_scan_complete(branch) ==
    IF branch = "missing"
    THEN Outputs("Directory does not exist.", NoStats, None, None, TRUE)
    ELSE Outputs("", NoStats, None, None, FALSE)

\* start_scan, lines 407 and 425: the returns that do not scan.
start_scan_no_scan(branch) ==
    IF branch = "missing"
    THEN Outputs("Directory does not exist.", NoStats, None, None, FALSE)
    ELSE Outputs("", NoStats, None, None, FALSE)

\* start_scan, lines 416-423: the return after get_file_tree has returned w.
start_scan_result(w) ==
    LET total_files == count_files(w.heap, w.tree)
    IN Outputs("Analysis complete.",
               [text |-> "Analysis completed", total_files |-> total_files],
               ToJson(w.heap, w.tree), ListToJson(w.heap, w.all_files), TRUE)

\* -------------------------------------------------------------------- state
VARIABLES
    n_clicks, directory,                 \* scan-button.n_clicks, directory-input.value
    loading_text, scan_stats,            \* the outputs of start_scan
    file_tree_store, all_files_store, analysis_complete,
    pc, caller,                          \* where the program is, who called get_file_tree
    result,                              \* what get_file_tree returned to a direct caller
    root_dir, batch_size,                \* the arguments of get_file_tree
    node_id_counter, heap, tree, file_hashes, duplicate_files, all_files,
    stack, returned,
    handed,                              \* history: the paths handed to process_file_batch
    fs, fuel,                            \* the filesystem seen so far, what may still appear
    view,                                \* the objects of a scan result that a consumer holds
    found, out,                          \* the last lookup by id, the last consumer's output
    now                                  \* the clock, in seconds

dash == <<n_clicks, directory>>
outputs == <<loading_text, scan_stats, file_tree_store, all_files_store, analysis_complete>>
stores == <<file_tree_store, all_files_store, analysis_complete>>
walker == <<root_dir, batch_size, node_id_counter, heap, tree, file_hashes,
            duplicate_files, all_files, stack, returned>>
consumer == <<view, found, out>>
vars == <<dash, outputs, pc, caller, result, walker, handed, fs, fuel, consumer, now>>

W == [node_id_counter |-> node_id_counter, heap |-> heap, tree |-> tree,
      file_hashes |-> file_hashes, duplicate_files |-> duplicate_files,
      all_files |-> all_files, batch_size |-> batch_size, stack |-> stack,
      returned |-> returned]

SetW(w) ==
    /\ node_id_counter' = w.node_id_counter
    /\ heap' = w.heap
    /\ tree' = w.tree
    /\ file_hashes' = w.file_hashes
    /\ duplicate_files' = w.duplicate_files
    /\ all_files' = w.all_files
    /\ batch_size' = w.batch_size
    /\ stack' = w.stack
    /\ returned' = w.returned

SetOutputs(o) ==
    /\ loading_text' = o.loading_text
    /\ scan_stats' = o.scan_stats
    /\ file_tree_store' = o.file_tree_store
    /\ all_files_store' = o.all_files_store
    /\ analysis_complete' = o.analysis_complete

NoView == [heap |-> <<>>, tree |-> NoNode, all_files |-> <<>>]
NoLookup == [node_id |-> PyNone, result |-> NoNode]
NoOutput == [op |-> "none"]

Fuel(entries, faults, scans, kinds, contents) ==
    [entries |-> entries, faults |-> faults, scans |-> scans,
     kinds |-> kinds, contents |-> contents]

\* The state when the page has loaded: the layout's values (lines 356-369),
\* and Dash about to make the initial call of start_scan with n_clicks = 0.
InitAt(f, pc0, fs0) ==
    /\ n_clicks = 0 /\ directory = EmptyInput
    /\ loading_text = "" /\ scan_stats = NoStats
    /\ file_tree_store = None /\ all_files_store = None /\ analysis_complete = FALSE
    /\ pc = pc0 /\ caller = "start_scan"
    /\ result = None
    /\ root_dir = EmptyInput /\ batch_size = DefaultBatchSize
    /\ node_id_counter = 0 /\ heap = <<>> /\ tree = 0 /\ file_hashes = <<>>
    /\ duplicate_files = <<>> /\ all_files = <<>> /\ stack = <<>> /\ returned = FALSE
    /\ handed = <<>>
    /\ fs = fs0
    /\ fuel = f
    /\ view = NoView /\ found = NoLookup /\ out = NoOutput
    /\ now = 0

InitWith(f) == InitAt(f, "start_scan", <<>>)

\* One scan of a filesystem of at most MaxEntries entries.
Init == InitWith(Fuel(MaxEntries, MaxFaults, 1, WalkKinds, 0..MaxContent))

\* One scan of a single directory of at most MaxFlatFiles readable files.
InitBatch == InitWith(Fuel(MaxFlatFiles, 0, 1, {"file"}, {1}))

\* Up to MaxScans scans, one after the other, of a small filesystem.
InitApp == InitWith(Fuel(AppEntries, MaxFaults, MaxScans, WalkKinds, 0..MaxContent))
\* ------------------------------------------------------------------ actions
Walking == pc = "get_file_tree" /\ ~returned /\ stack # <<>>
TopPath == heap[stack[Len(stack)].node].path
TopPc == stack[Len(stack)].pc

\* The user enters a directory and clicks the scan button; while the long
\* callback runs, loading-text shows the running text (lines 398-402).
ClickScan ==
    /\ pc = "idle" /\ fuel.scans > 0
    /\ \E d \in Directories : directory' = d
    /\ n_clicks' = n_clicks + 1
    /\ loading_text' = "Analysis in progress..."
    /\ pc' = "start_scan" /\ caller' = "start_scan"
    /\ fuel' = [fuel EXCEPT !.scans = @ - 1]
    /\ UNCHANGED <<scan_stats, stores, result, walker, handed, fs>>
    /\ UNCHANGED <<consumer, now>>

\* start_scan, lines 404-413 and 424-425: return without scanning, or call
\* get_file_tree(directory) with the default batch size.
StartScan ==
    /\ pc = "start_scan"
    /\ LET branch == start_scan_branch(n_clicks, directory)
       IN IF branch = "scan"
          THEN /\ SetW(get_file_tree(directory, DefaultBatchSize))
               /\ root_dir' = directory
               /\ handed' = <<>>
               /\ pc' = "get_file_tree"
               /\ UNCHANGED outputs
          ELSE /\ SetOutputs(start_scan_no_scan(branch))
               /\ pc' = "idle"
               /\ UNCHANGED <<walker, handed>>
    /\ UNCHANGED <<dash, caller, result, fs, fuel>>
    /\ UNCHANGED <<consumer, now>>

\* get_file_tree with node_id_counter kept from the scan before, as a
\* counter of the module would be: the ids go on where the last scan ended.
CallGetFileTreeSharedCounter ==
    /\ pc = "idle" /\ fuel.scans > 0
    /\ \E bs \in BatchSizes :
          SetW([get_file_tree(RootDir, bs) EXCEPT !.node_id_counter = node_id_counter + 1,
                                                  !.heap[1].id = node_id_counter])
    /\ root_dir' = RootDir
    /\ pc' = "get_file_tree" /\ caller' = "direct"
    /\ result' = None
    /\ handed' = <<>>
    /\ fuel' = [fuel EXCEPT !.scans = @ - 1]
    /\ UNCHANGED <<dash, outputs, fs>>
    /\ UNCHANGED <<consumer, now>>

\* get_file_tree called directly (not through the callback) on the root, with
\* a batch size of the caller's choice.
CallGetFileTree ==
    /\ pc = "idle" /\ fuel.scans > 0
    /\ \E bs \in BatchSizes : SetW(get_file_tree(RootDir, bs))
    /\ root_dir' = RootDir
    /\ pc' = "get_file_tree" /\ caller' = "direct"
    /\ result' = None
    /\ handed' = <<>>
    /\ fuel' = [fuel EXCEPT !.scans = @ - 1]
    /\ UNCHANGED <<dash, outputs, fs>>
    /\ UNCHANGED <<consumer, now>>

\* add_nodes, line 47.  A directory seen before answers as before; a new one
\* is listed, or raises when a fault is still allowed.
AddNodesScandir ==
    /\ Walking /\ TopPc = "scandir"
    /\ IF TopPath \in DOMAIN fs
       THEN /\ SetW(add_nodes_scandir(W, fs[TopPath].scandir_ok))
            /\ UNCHANGED <<fs, fuel>>
       ELSE \E ok \in BOOLEAN :
            /\ ok \/ fuel.faults > 0
            /\ SetW(add_nodes_scandir(W, ok))
            /\ fs' = (TopPath :> [Listing(ok) EXCEPT !.end = IF ok THEN "open" ELSE "error"]) @@ fs
            /\ fuel' = [fuel EXCEPT !.faults = IF ok THEN @ ELSE @ - 1]
    /\ UNCHANGED <<dash, outputs, pc, caller, result, root_dir, handed>>
    /\ UNCHANGED <<consumer, now>>

\* What the iterator may give at a position not seen before.
NewEntries(name) ==
    {Entry(k, name, 0, TRUE, TRUE, 0) : k \in fuel.kinds \ {"file"}}
    \cup {e \in {Entry("file", name, c, h, t, 0) :
                    c \in fuel.contents, h \in BOOLEAN, t \in BOOLEAN} :
            /\ "file" \in fuel.kinds
            /\ (IF e.hash_ok THEN 0 ELSE 1) + (IF e.stat_ok THEN 0 ELSE 1) <= fuel.faults}

EntryFaults(e) == (IF e.hash_ok THEN 0 ELSE 1) + (IF e.stat_ok THEN 0 ELSE 1)

\* add_nodes, lines 49-69: one turn of the loop.
AddNodesFor ==
    /\ Walking /\ TopPc = "for"
    /\ LET l == fs[TopPath]
           pos == stack[Len(stack)].pos
       IN IF pos < Len(l.entries) \/ l.end # "open"
          THEN /\ SetW(add_nodes_for(W, ForOutcome(W, fs)))
               /\ UNCHANGED <<fs, fuel>>
          ELSE \/ \E e \in NewEntries(pos + 1) :
                    /\ fuel.entries > 0
                    /\ SetW(add_nodes_for(W, e))
                    /\ fs' = [fs EXCEPT ![TopPath].entries = Append(@, e)]
                    /\ fuel' = [fuel EXCEPT !.entries = @ - 1,
                                            !.faults = @ - EntryFaults(e)]
               \/ \E k \in {"stop", "error"} :
                    /\ k = "stop" \/ fuel.faults > 0
                    /\ SetW(add_nodes_for(W, [kind |-> k]))
                    /\ fs' = [fs EXCEPT ![TopPath].end = k]
                    /\ fuel' = [fuel EXCEPT !.faults = IF k = "stop" THEN @ ELSE @ - 1]
    /\ UNCHANGED <<dash, outputs, pc, caller, result, root_dir, handed>>
    /\ UNCHANGED <<consumer, now>>

\* process_file_batch, line 80.
ProcessFileBatchHashes ==
    /\ Walking /\ TopPc = "hashes"
    /\ SetW(process_file_batch_hashes(W, fs))
    /\ handed' = handed \o stack[Len(stack)].files_to_hash
    /\ UNCHANGED <<dash, outputs, pc, caller, result, root_dir, fs, fuel>>
    /\ UNCHANGED <<consumer, now>>

\* process_file_batch, lines 82-94: one file, or the return to add_nodes.
ProcessFileBatchStep ==
    /\ Walking /\ TopPc = "batch"
    /\ SetW(process_file_batch_step(W, fs))
    /\ UNCHANGED <<dash, outputs, pc, caller, result, root_dir, handed, fs, fuel>>
    /\ UNCHANGED <<consumer, now>>

\* add_nodes returns to its caller.
AddNodesReturn ==
    /\ Walking /\ TopPc = "return"
    /\ SetW(add_nodes_return(W))
    /\ UNCHANGED <<dash, outputs, pc, caller, result, root_dir, handed, fs, fuel>>
    /\ UNCHANGED <<consumer, now>>

\* start_scan, lines 413-423: get_file_tree has returned; the callback
\* returns and Dash writes its outputs.
StartScanReturn ==
    /\ pc = "get_file_tree" /\ returned /\ caller = "start_scan"
    /\ SetOutputs(start_scan_result(W))
    /\ pc' = "idle"
    /\ UNCHANGED <<dash, caller, result, walker, handed, fs, fuel>>
    /\ UNCHANGED <<consumer, now>>

\* get_file_tree returns (tree, all_files) to a direct caller (line 77).
GetFileTreeReturn ==
    /\ pc = "get_file_tree" /\ returned /\ caller = "direct"
    /\ result' = [tree |-> ToJson(heap, tree), all_files |-> ListToJson(heap, all_files)]
    /\ pc' = "idle"
    /\ UNCHANGED <<dash, outputs, caller, walker, handed, fs, fuel>>
    /\ UNCHANGED <<consumer, now>>

Next ==
    \/ ClickScan
    \/ StartScan
    \/ CallGetFileTree
    \/ AddNodesScandir
    \/ AddNodesFor
    \/ ProcessFileBatchHashes
    \/ ProcessFileBatchStep
    \/ AddNodesReturn
    \/ StartScanReturn
    \/ GetFileTreeReturn

Spec == Init /\ [][Next]_vars
SpecBatch == InitBatch /\ [][Next]_vars
SpecApp == InitApp /\ [][Next]_vars

\* One scan of a filesystem that also has entries that are neither
\* directories, regular files nor symbolic links.
InitKinds == InitWith(Fuel(MaxEntries, MaxFaults, 1, EntryKinds, 0..MaxContent))
SpecKinds == InitKinds /\ [][Next]_vars

\* The scan runs in one thread, which takes its next step whenever it has one.
WalkNext ==
    \/ AddNodesScandir
    \/ AddNodesFor
    \/ ProcessFileBatchHashes
    \/ ProcessFileBatchStep
    \/ AddNodesReturn
InitFair == InitWith(Fuel(FairEntries, MaxFaults, 1, WalkKinds, 0..MaxContent))
FairSpec == InitFair /\ [][Next]_vars /\ WF_vars(WalkNext)
\* ---------------------------------------------------- consumers of a result
\* A consumer takes the result of the scan that has returned: a callback gets
\* the data of the stores decoded, a direct caller the objects themselves.
LoadResult ==
    /\ pc = "idle" /\ returned /\ stack = <<>>
    /\ view' = [heap |-> Objects(heap), tree |-> tree, all_files |-> all_files]
    /\ found' = NoLookup /\ out' = NoOutput
    /\ pc' = "view"
    /\ UNCHANGED <<dash, outputs, caller, result, walker, handed, fs, fuel, now>>

\* The ids a consumer may ask for: those of the nodes and one more.
NodeIds == {PyInt(n) : n \in 0..Len(view.heap)}

\* copy_selected_to_builder (line 746), visualize_folder (line 783).
FindNodeById ==
    /\ pc = "view"
    /\ \E node_id \in NodeIds :
          found' = [node_id |-> node_id,
                    result |-> find_node_by_id(view.heap, view.tree, node_id)]
    /\ UNCHANGED <<dash, outputs, pc, caller, result, walker, handed, fs, fuel, view, out, now>>

CountFiles ==
    /\ pc = "view"
    /\ out' = [op |-> "count_files", value |-> count_files(view.heap, view.tree)]
    /\ UNCHANGED <<dash, outputs, pc, caller, result, walker, handed, fs, fuel, view, found, now>>

\* update_section_content, line 507.
BuildFileHierarchy ==
    /\ pc = "view"
    /\ out' = [op |-> "build_file_hierarchy",
               value |-> build_file_hierarchy(view.heap, view.tree)]
    /\ UNCHANGED <<dash, outputs, pc, caller, result, walker, handed, fs, fuel, view, found, now>>

\* update_section_content, line 491.
BuildAnalysisContent ==
    /\ pc = "view"
    /\ out' = [op |-> "build_analysis_content",
               value |-> build_analysis_content(ListToJson(view.heap, view.all_files))]
    /\ UNCHANGED <<dash, outputs, pc, caller, result, walker, handed, fs, fuel, view, found, now>>

\* visualize_folder, lines 783-785: build_elements on the folder that the
\* lookup by id found.
BuildElements ==
    /\ pc = "view"
    /\ found.result # NoNode
    /\ view.heap[found.result].type = "directory"
    /\ LET r == build_elements(view.heap, found.result, PyNone, <<>>)
       IN /\ view' = [view EXCEPT !.heap = r.heap]
          /\ out' = [op |-> "build_elements", value |-> r.elements]
    /\ UNCHANGED <<dash, outputs, pc, caller, result, walker, handed, fs, fuel, found, now>>

NextView ==
    \/ Next
    \/ LoadResult
    \/ FindNodeById
    \/ CountFiles
    \/ BuildFileHierarchy
    \/ BuildAnalysisContent
    \/ BuildElements

\* One scan of a small filesystem, and the consumers of its result.
InitView == InitWith(Fuel(ViewEntries, 0, 1, {"dir", "file"}, 0..MaxContent))
SpecView == InitView /\ [][NextView]_vars
\* ------------------------------------------------- get_file_info on one file
\* One regular file, of a size and an age about the thresholds, on which
\* get_file_info is run, and run again as time passes or after the file has
\* been written.
InfoPath == Join(RootDir, 1)
InfoSizes == {0, 1, LargeBytes - 1, LargeBytes, LargeBytes + 1}
InfoAges == {0 - 1, 0, OldDays * Day - 1, OldDays * Day, OldDays * Day + Day - 1,
             (OldDays + 1) * Day}

InfoFile(size, stat_ok, age) ==
    RootDir :> [scandir_ok |-> TRUE,
                entries |-> <<Entry("file", 1, size, TRUE, stat_ok, age)>>,
                end |-> "stop"]

InitInfo ==
    \E size \in InfoSizes, stat_ok \in BOOLEAN, age \in InfoAges :
        InitAt(Fuel(0, 0, 0, {}, {}), "info", InfoFile(size, stat_ok, age))

InfoEntry == fs[RootDir].entries[1]

\* get_file_info(filepath, node_id_counter), with the size and modification
\* time it found and the time of the call, and those of the run before.
GetFileInfo ==
    /\ pc = "info"
    /\ IF out.op = "none" THEN TRUE ELSE out.run < MaxRuns
    /\ LET st == os_stat(fs, InfoPath)
           r == get_file_info(InfoPath, st, node_id_counter)
       IN /\ out' = [op |-> "get_file_info",
                     run |-> IF out.op = "none" THEN 1 ELSE out.run + 1,
                     st_size |-> st.st_size, st_mtime |-> now - st.age_seconds,
                     now |-> now, info |-> r.info,
                     before |-> IF out.op = "none" THEN NoOutput
                                ELSE [op |-> out.op, st_size |-> out.st_size,
                                      st_mtime |-> out.st_mtime, now |-> out.now,
                                      info |-> out.info]]
          /\ node_id_counter' = r.node_id_counter
    /\ UNCHANGED <<dash, outputs, pc, caller, result, root_dir, batch_size, heap, tree,
                   file_hashes, duplicate_files, all_files, stack, returned,
                   handed, fs, fuel, view, found, now>>

\* A second passes: the file is a second older.
Tick ==
    /\ pc = "info" /\ now < MaxTicks
    /\ now' = now + 1
    /\ fs' = [fs EXCEPT ![RootDir].entries[1].age = @ + 1]
    /\ UNCHANGED <<dash, outputs, pc, caller, result, walker, handed, fuel, consumer>>

\* The file is written: it is modified now, and is emptied or keeps its size.
Touch ==
    /\ pc = "info" /\ InfoEntry.age # 0
    /\ \E size \in {0, InfoEntry.content} :
          fs' = [fs EXCEPT ![RootDir].entries[1].age = 0,
                           ![RootDir].entries[1].content = size]
    /\ UNCHANGED <<dash, outputs, pc, caller, result, walker, handed, fuel, consumer, now>>

NextInfo ==
    \/ GetFileInfo
    \/ Tick
    \/ Touch

SpecInfo == InitInfo /\ [][NextInfo]_vars
\* =============================================================== properties
\* The addresses of the file records created so far.
FileRecords == {a \in 1..Len(heap) : heap[a].type = "file"}
DirNodes == {a \in 1..Len(heap) : heap[a].type = "directory"}

\* The digest get_file_hashes computes for a path: None when reading fails.
DigestOf(filepath) ==
    LET e == LookupEntry(fs, filepath)
    IN IF e.hash_ok THEN md5_hexdigest(e.content) ELSE None

Count(q, x) == Cardinality({i \in 1..Len(q) : q[i] = x})
Range(f) == {f[x] : x \in DOMAIN f}

\* The addresses of the file nodes reachable from node a, in depth-first order.
RECURSIVE FileNodes(_, _)
FileNodes(h, a) ==
    IF h[a].type = "file" THEN <<a>>
    ELSE Flatten([i \in 1..Len(h[a].children) |-> FileNodes(h, h[a].children[i])])

\* get_file_tree has returned (and no later call has begun).
Returned == returned /\ stack = <<>>

\* ------------------------------------------------------------------------
\* C1: in every state of a scan, hence after every file processed and in the
\* final result, a recorded file whose digest was computed is flagged
\* is_duplicate exactly when another recorded file has the same digest.
C1_DuplicateSymmetry ==
    \A a \in FileRecords :
        DigestOf(heap[a].path) # None =>
            (heap[a].is_duplicate <=>
                \E b \in FileRecords \ {a} : DigestOf(heap[b].path) = DigestOf(heap[a].path))

\* Two files of the same content in different directories, hence of
\* different batches, are both flagged when the scan has returned.
C1_Witness ==
    /\ Returned
    /\ \E a, b \in FileRecords :
        /\ a # b
        /\ DigestOf(heap[a].path) # None
        /\ DigestOf(heap[a].path) = DigestOf(heap[b].path)
        /\ Parent(heap[a].path) # Parent(heap[b].path)
        /\ heap[a].is_duplicate /\ heap[b].is_duplicate

\* ------------------------------------------------------------------------
\* C2: when get_file_tree returns, all_files holds exactly the file nodes
\* reachable from the root, each once, and len(all_files) = count_files(root).
C2_AllFilesIsTreeFiles ==
    Returned =>
        LET reached == FileNodes(heap, tree)
        IN /\ \A a \in 1..Len(heap) : Count(all_files, a) = Count(reached, a)
           /\ \A a \in FileRecords : Count(all_files, a) = 1
           /\ Range(all_files) \subseteq FileRecords
           /\ Len(all_files) = count_files(heap, tree)

\* A scan that recorded a file of a subdirectory whose hashing failed, and
\* another file, has returned.
C2_Witness ==
    /\ Returned
    /\ \E a \in FileRecords : Len(heap[a].path) > 2 /\ DigestOf(heap[a].path) = None
    /\ Len(all_files) >= 2
\* ------------------------------------------------------------------------
\* C3: for a batch size of 1, 2 or 10, a directory whose enumeration ended
\* normally and whose regular files can all be read has, when the scan has
\* returned, exactly one file record per regular file, as a child of its node
\* and in all_files: none is lost or doubled at a batch boundary.
FileEntries(path) ==
    {i \in 1..Len(fs[path].entries) : fs[path].entries[i].kind = "file"}

AllReadable(path) ==
    /\ fs[path].scandir_ok /\ fs[path].end = "stop"
    /\ \A i \in FileEntries(path) :
          fs[path].entries[i].hash_ok /\ fs[path].entries[i].stat_ok

C3_BatchBoundary ==
    (Returned /\ batch_size \in BatchSizes) =>
        \A d \in DirNodes :
            AllReadable(heap[d].path) =>
                LET kids == heap[d].children
                    fileKids == {k \in 1..Len(kids) : heap[kids[k]].type = "file"}
                IN /\ Cardinality(fileKids) = Cardinality(FileEntries(heap[d].path))
                   /\ \A i \in FileEntries(heap[d].path) :
                        LET p == Join(heap[d].path, fs[heap[d].path].entries[i].name)
                        IN /\ Cardinality({k \in fileKids : heap[kids[k]].path = p}) = 1
                           /\ Cardinality({k \in 1..Len(all_files) :
                                              heap[all_files[k]].path = p}) = 1

\* A directory of batch_size + 1 = 11 files has been scanned with the default
\* batch size.
C3_Witness ==
    /\ Returned /\ AllReadable(RootDir)
    /\ batch_size = DefaultBatchSize
    /\ Cardinality(FileEntries(RootDir)) = batch_size + 1
    /\ Len(all_files) = batch_size + 1
\* ------------------------------------------------------------------------
\* C4: a file whose hashing failed is never in the duplicate index, has no
\* digest and is never flagged is_duplicate; and when the scan has returned,
\* every path that was handed to process_file_batch, whose hashing failed and
\* whose metadata could be read, has a record that is a child of its
\* directory's node, reachable from the root, and an element of all_files.
NodeOfPath(path) == CHOOSE d \in DirNodes : heap[d].path = path

C4_HashFailureRecorded ==
    /\ None \notin DOMAIN file_hashes
    /\ \A a \in FileRecords :
          DigestOf(heap[a].path) = None =>
              /\ heap[a].hash = None
              /\ ~heap[a].is_duplicate
              /\ a \notin Range(file_hashes)
    /\ Returned =>
          \A i \in 1..Len(handed) :
              LET e == LookupEntry(fs, handed[i])
              IN (~e.hash_ok /\ e.stat_ok) =>
                    \E a \in FileRecords :
                        /\ heap[a].path = handed[i]
                        /\ a \in Range(heap[NodeOfPath(Parent(handed[i]))].children)
                        /\ a \in Range(FileNodes(heap, tree))
                        /\ a \in Range(all_files)

\* A scan has returned that recorded a file whose hashing failed next to two
\* files that are duplicates of each other.
C4_Witness ==
    /\ Returned
    /\ \E a, b, c \in FileRecords :
          /\ DigestOf(heap[a].path) = None /\ a \in Range(all_files)
          /\ b # c /\ heap[b].is_duplicate /\ heap[c].is_duplicate
\* ------------------------------------------------------------------------
\* C5: a file whose metadata read fails.
\* What a call of get_file_tree has built: counter, objects, list and index.
Data(w) == <<w.node_id_counter, w.heap, w.all_files, w.file_hashes, w.duplicate_files>>

StatOk(filepath) == os_stat(fs, filepath).ok

\* The file record of a path in heap h, None when there is none.
RecordOf(h, filepath) ==
    LET as == {a \in 1..Len(h) : h[a].type = "file" /\ h[a].path = filepath}
    IN IF as = {} THEN None ELSE h[CHOOSE a \in as : TRUE]

\* The filesystem without the entry of filepath.
RemoveEntry(fsv, filepath) ==
    [fsv EXCEPT ![Parent(filepath)].entries =
        SelectSeq(@, LAMBDA e : e.name # Basename(filepath))]

\* No record is ever created for a path whose os.stat fails, so it is in
\* neither the tree nor all_files nor the index, and it takes no id: the
\* counter is the number of nodes created.
C5_NoTrace ==
    /\ \A a \in FileRecords : StatOk(heap[a].path)
    /\ Range(all_files) \cup Range(file_hashes) \subseteq FileRecords
    /\ \A d \in DirNodes : Range(heap[d].children) \subseteq 1..Len(heap)
    /\ node_id_counter = Len(heap)

\* C5 as amended: whenever process_file_batch is called, its effect on the
\* counter, the objects, all_files and the index is the effect of the call
\* without the paths whose os.stat fails: the other files of the batch are
\* processed as if the failing file were absent from the batch.
C5_BatchIsolation ==
    (Walking /\ TopPc = "hashes") =>
        LET files == stack[Len(stack)].files_to_hash
        IN Data(process_file_batch(W, fs, files))
             = Data(process_file_batch(W, fs, SelectSeq(files, StatOk)))

C5_AsIfAbsent ==
    Returned =>
        \A i \in 1..Len(handed) :
            ~StatOk(handed[i]) =>
                LET dir == Parent(handed[i])
                    without == Scan(RemoveEntry(fs, handed[i]), root_dir, batch_size)
                IN \A k \in FileEntries(dir) :
                      LET q == Join(dir, fs[dir].entries[k].name)
                      IN q # handed[i] =>
                            RecordOf(heap, q) = RecordOf(without.heap, q)

EmptyListing == [scandir_ok |-> TRUE, entries |-> <<>>, end |-> "stop"]

Unlistable == {d \in DOMAIN fs : ~fs[d].scandir_ok /\ d # root_dir}

C6_UnlistableAsEmpty ==
    Returned =>
        \A d \in Unlistable :
            /\ \E a \in DirNodes :
                  /\ heap[a].path = d /\ heap[a].children = <<>>
                  /\ a \in Range(heap[NodeOfPath(Parent(d))].children)
            /\ LET r == Scan([fs EXCEPT ![d] = EmptyListing], root_dir, batch_size)
               IN Data(r) = Data(W) /\ r.tree = tree

\* A scan has returned in which a subdirectory could not be listed while a
\* sibling file and a sibling directory of it were recorded.
C6_Witness ==
    /\ Returned
    /\ \E d \in Unlistable :
          /\ \E a \in FileRecords : Parent(heap[a].path) = Parent(d)
          /\ \E b \in DirNodes : heap[b].path # d /\ Parent(heap[b].path) = Parent(d)
\* ------------------------------------------------------------------------
\* C7: a step of start_scan on a clicked, non-empty path that does not exist
\* returns the message 'Directory does not exist.' with no statistics, no
\* tree, no file list and analysis-complete False, and leaves every variable
\* of the walker as it was: get_file_tree is not called.
C7_MissingRoot ==
    [][(pc = "start_scan" /\ n_clicks > 0 /\ directory = MissingDir) =>
          /\ loading_text' = "Directory does not exist."
          /\ scan_stats' = NoStats
          /\ file_tree_store' = None /\ all_files_store' = None
          /\ analysis_complete' = FALSE
          /\ pc' = "idle"
          /\ UNCHANGED <<walker, handed, fs>>]_vars

\* After a completed scan, a scan of a missing path has ended in the error.
C7_Witness ==
    /\ pc = "idle" /\ directory = MissingDir /\ n_clicks > 0
    /\ loading_text = "Directory does not exist."
    /\ Returned /\ Len(heap) >= 2

\* ------------------------------------------------------------------------
\* C8: a scan through start_scan of a root that exists but cannot be listed
\* is aborted: when start_scan has returned there is no tree and the scan is
\* not reported as complete.
RootUnlistable == RootDir \in DOMAIN fs /\ ~fs[RootDir].scandir_ok

C8_RootFailureAborts ==
    (pc = "idle" /\ caller = "start_scan" /\ directory = RootDir /\ RootUnlistable) =>
        /\ file_tree_store = None
        /\ ~analysis_complete

\* ------------------------------------------------------------------------
\* C9: every call of get_file_tree returns, and the tree it returns has the
\* scanned root path as its root node.
RootIsScannedPath ==
    /\ tree \in DirNodes
    /\ heap[tree].path = root_dir
    /\ heap[tree].id = 0

C9_Terminates == (pc = "get_file_tree") ~> (Returned /\ RootIsScannedPath)

\* A scan below an accessible root has returned, over a filesystem with a
\* symbolic link and with a failure.
C9_Witness ==
    /\ Returned /\ RootIsScannedPath
    /\ fs[RootDir].scandir_ok
    /\ \E d \in DOMAIN fs : \E i \in 1..Len(fs[d].entries) : fs[d].entries[i].kind = "symlink"
    /\ fuel.faults < MaxFaults

\* ------------------------------------------------------------------------
\* C10: the stores change only in a step in which start_scan returns: with
\* nothing when no scan was made, with the result of get_file_tree when it
\* has returned.  Whenever analysis-complete is True, the stores hold the tree
\* and the list of a complete scan of the root.
CompleteScan == Scan(fs, RootDir, DefaultBatchSize)

C10_CompleteWhenFlagged ==
    analysis_complete =>
        /\ file_tree_store # None
        /\ RootDir \in DOMAIN fs
        /\ file_tree_store = ToJson(CompleteScan.heap, CompleteScan.tree)
        /\ all_files_store = ListToJson(CompleteScan.heap, CompleteScan.all_files)

C10_WrittenAtReturn ==
    stores' # stores =>
        /\ pc' = "idle"
        /\ \/ /\ pc = "start_scan"
              /\ file_tree_store' = None /\ all_files_store' = None
              /\ ~analysis_complete'
           \/ /\ pc = "get_file_tree" /\ Returned
              /\ file_tree_store' = ToJson(heap, tree)
              /\ all_files_store' = ListToJson(heap, all_files)
              /\ analysis_complete'

C10_NoPartialTree == [](C10_CompleteWhenFlagged) /\ [][C10_WrittenAtReturn]_vars

\* A second scan is under way, its tree partly built, while the stores hold
\* the complete tree of the first.
C10_Witness ==
    /\ pc = "get_file_tree" /\ ~returned /\ caller = "start_scan"
    /\ Len(heap) >= 2 /\ heap[tree].children = <<>>
    /\ analysis_complete
    /\ Len(file_tree_store.children) >= 2
\* ------------------------------------------------------------------------
\* C11: every step that begins a call of get_file_tree begins it with the id
\* counter at 0 (the root takes id 0), an empty duplicate index and no record
\* of an earlier scan; and whenever a scan has returned, after whatever scans
\* came before it, its result is the result of a first scan of the same
\* filesystem, so a file is flagged duplicate only when another file of this
\* scan has its digest.
C11_FreshStart ==
    (pc # "get_file_tree" /\ pc' = "get_file_tree") =>
        /\ heap' = <<[name |-> Basename(root_dir'), path |-> root_dir', children |-> <<>>,
                      type |-> "directory", id |-> 0]>>
        /\ node_id_counter' = 1
        /\ file_hashes' = <<>> /\ duplicate_files' = <<>> /\ all_files' = <<>>

C11_AsFirstScan ==
    Returned =>
        /\ heap[tree].id = 0
        /\ Data(W) = Data(Scan(fs, root_dir, batch_size))
        /\ C1_DuplicateSymmetry

C11_ScansShareNoState == [][C11_FreshStart]_vars /\ [](C11_AsFirstScan)

\* A second scan has returned, after a scan through start_scan that found
\* files: it found two files of the same content.
C11_Witness ==
    /\ Returned /\ pc = "idle" /\ caller = "direct" /\ fuel.scans = 0
    /\ analysis_complete /\ all_files_store # <<>>
    /\ \E a, b \in FileRecords : a # b /\ heap[a].is_duplicate /\ heap[b].is_duplicate
\* ------------------------------------------------------------------------
\* C12: on the tree that a scan returned, for every id (those of the nodes
\* and one that no node has) find_node_by_id(root, id) is the first node in
\* depth-first order whose id is id, None when there is none; for every node
\* n it is n itself when asked for the id of n; and every lookup that was
\* made gave that answer.
RECURSIVE Preorder(_, _)
Preorder(h, a) ==
    <<a>> \o
    (IF h[a].type = "directory"
     THEN Flatten([i \in 1..Len(h[a].children) |-> Preorder(h, h[a].children[i])])
     ELSE <<>>)

FirstWithId(h, a, node_id) ==
    LET pre == Preorder(h, a)
        m == {i \in 1..Len(pre) : h[pre[i]].id = node_id}
    IN IF m = {} THEN NoNode ELSE pre[CHOOSE i \in m : \A j \in m : i <= j]

\* A consumer holds the result as the scan returned it.
AsReturned == pc = "view" /\ view.heap = Objects(heap)

C12_FindNodeById ==
    AsReturned =>
        /\ \A node_id \in NodeIds :
              find_node_by_id(view.heap, view.tree, node_id)
                = FirstWithId(view.heap, view.tree, node_id)
        /\ \A n \in Range(Preorder(view.heap, view.tree)) :
              find_node_by_id(view.heap, view.tree, view.heap[n].id) = n
        /\ found # NoLookup =>
              found.result = FirstWithId(view.heap, view.tree, found.node_id)

\* The lookup found a file of a subdirectory in a tree of four nodes.
C12_Witness ==
    /\ AsReturned
    /\ Len(view.heap) = 4
    /\ found.result # NoNode
    /\ view.heap[found.result].type = "file"
    /\ Len(view.heap[found.result].path) > 2
\* ------------------------------------------------------------------------
\* C13: whatever consumers (find_node_by_id, count_files, build_elements,
\* build_file_hierarchy, build_analysis_content) have run on a scan result,
\* every field of every node is as the scan returned it, and a lookup by id
\* that succeeded gives the same node when it is made again.
C13_ResultImmutable ==
    pc = "view" =>
        /\ view.heap = Objects(heap)
        /\ found.result # NoNode =>
              find_node_by_id(view.heap, view.tree, found.node_id) = found.result
\* ------------------------------------------------------------------------
\* C14: the record get_file_info returns has is_large exactly when the size is
\* greater than 104857600 bytes (not at 104857600, but at 104857601), and
\* is_old exactly when the whole days from the last modification to the call
\* are more than 1825 (not at 1825 days, but at 1826).
C14_StrictThresholds ==
    (out.op = "get_file_info" /\ out.info # None) =>
        LET size == out.st_size
            seconds == out.now - out.st_mtime
            days == seconds \div 86400
        IN /\ out.info.size = size
           /\ out.info.is_large <=> size > 104857600
           /\ size = 104857600 => ~out.info.is_large
           /\ size = 104857601 => out.info.is_large
           /\ out.info.is_old <=> days > 1825
           /\ days = 1825 => ~out.info.is_old
           /\ days = 1826 => out.info.is_old

\* get_file_info has run on a file of exactly 100 MiB that was modified
\* exactly 1826 days before: it is old and not large.
C14_Witness ==
    /\ out.op = "get_file_info" /\ out.info # None
    /\ out.st_size = 104857600 /\ ~out.info.is_large
    /\ out.now - out.st_mtime = 1826 * 86400 /\ out.info.is_old
\* ------------------------------------------------------------------------
\* C15: files of size 0.
EmptyRecords == {a \in FileRecords : heap[a].size = 0}
EmptyDigest == md5_hexdigest(0)

\* C15 as stated: every recorded file of size 0 has is_empty and the digest
\* of the empty content; when the scan has returned, two or more recorded
\* files of size 0 are all flagged is_duplicate, and a single one is not.
C15_Original ==
    /\ \A a \in EmptyRecords :
          heap[a].is_empty /\ DigestOf(heap[a].path) = EmptyDigest
    /\ Returned =>
          /\ Cardinality(EmptyRecords) >= 2 => \A a \in EmptyRecords : heap[a].is_duplicate
          /\ Cardinality(EmptyRecords) = 1 => \A a \in EmptyRecords : ~heap[a].is_duplicate

\* C15 as amended: every recorded file of size 0 has is_empty, and the digest
\* of the empty content if its content could be read; when the scan has
\* returned, two or more recorded files of size 0 whose content could be read
\* are all flagged is_duplicate, a single one is not, and one whose content
\* could not be read is not.
EmptyHashed == {a \in EmptyRecords : DigestOf(heap[a].path) # None}

C15_Amended ==
    /\ \A a \in EmptyRecords : heap[a].is_empty
    /\ \A a \in EmptyHashed : DigestOf(heap[a].path) = EmptyDigest
    /\ Returned =>
          /\ Cardinality(EmptyHashed) >= 2 => \A a \in EmptyHashed : heap[a].is_duplicate
          /\ Cardinality(EmptyHashed) = 1 => \A a \in EmptyHashed : ~heap[a].is_duplicate
          /\ \A a \in EmptyRecords \ EmptyHashed : ~heap[a].is_duplicate

\* Three empty files were recorded: two were read and are flagged, the third
\* could not be read and is not.
C15_Witness ==
    /\ Returned
    /\ Cardinality(EmptyHashed) = 2
    /\ Cardinality(EmptyRecords) = 3
    /\ \A a \in EmptyHashed : heap[a].is_duplicate
\* ------------------------------------------------------------------------
\* C16: get_file_info run again.
\* get_file_info has run twice, both times with a record, on a file whose
\* size and modification time were the same at both runs.
RerunUnchanged ==
    /\ out.op = "get_file_info" /\ out.before.op = "get_file_info"
    /\ out.info # None /\ out.before.info # None
    /\ out.st_size = out.before.st_size
    /\ out.st_mtime = out.before.st_mtime

WholeDays(o) == (o.now - o.st_mtime) \div 86400

\* C16 as stated: the second run gives the flags is_empty, is_large and
\* is_old of the first, and is_duplicate False.
C16_Original ==
    RerunUnchanged =>
        /\ out.info.is_empty = out.before.info.is_empty
        /\ out.info.is_large = out.before.info.is_large
        /\ out.info.is_old = out.before.info.is_old
        /\ ~out.info.is_duplicate

\* C16 as amended: the second run gives the flags is_empty and is_large of
\* the first, and is_duplicate False; it gives the is_old of the first when
\* the whole days since the modification are the same at both calls, and
\* otherwise is_old can only have changed from False to True.
C16_Amended ==
    RerunUnchanged =>
        /\ out.info.is_empty = out.before.info.is_empty
        /\ out.info.is_large = out.before.info.is_large
        /\ ~out.info.is_duplicate
        /\ WholeDays(out) = WholeDays(out.before) =>
              out.info.is_old = out.before.info.is_old
        /\ out.before.info.is_old => out.info.is_old

\* The second run came a second after the first, on an unchanged file of more
\* than 100 MiB, within the same whole day: the flags are the same.
C16_Witness ==
    /\ RerunUnchanged
    /\ out.now > out.before.now
    /\ WholeDays(out) = WholeDays(out.before)
    /\ out.info.is_large /\ out.info.is_old /\ out.before.info.is_old
\* ------------------------------------------------------------------------
\* C17: when the scan has returned, the 'hash' field of every file record is
\* the digest computed for the file when hashing succeeded, and None only
\* when hashing failed.
C17_HashFieldHoldsDigest ==
    Returned =>
        \A a \in FileRecords :
            /\ DigestOf(heap[a].path) # None => heap[a].hash = DigestOf(heap[a].path)
            /\ heap[a].hash = None => DigestOf(heap[a].path) = None
\* ------------------------------------------------------------------------
\* C18: during a scan the record that file_hashes holds for a digest is a
\* record with that digest and the one of the smallest id among them, the
\* first that was processed; and no step of the scan removes a digest from
\* the index or changes the record stored for it.
RecordsWithDigest(d) == {b \in FileRecords : DigestOf(heap[b].path) = d}

C18_StoresFirst ==
    \A d \in DOMAIN file_hashes :
        /\ file_hashes[d] \in RecordsWithDigest(d)
        /\ \A b \in RecordsWithDigest(d) : heap[file_hashes[d]].id <= heap[b].id

C18_NeverReplaced ==
    (pc = "get_file_tree" /\ pc' = "get_file_tree") =>
        \A d \in DOMAIN file_hashes :
            d \in DOMAIN file_hashes' /\ file_hashes'[d] = file_hashes[d]

C18_IndexKeepsFirst == [](C18_StoresFirst) /\ [][C18_NeverReplaced]_vars

\* Three files of one digest have been processed: the index holds the first,
\* which is flagged like the two that came later.
C18_Witness ==
    /\ Returned
    /\ \E d \in DOMAIN file_hashes :
          /\ Cardinality(RecordsWithDigest(d)) = 3
          /\ heap[file_hashes[d]].is_duplicate
          /\ Len(duplicate_files) = 2
\* ------------------------------------------------------------------------
\* C19: every step of a scan that creates a node adds one to the counter and
\* no other step changes it, so the counter is the number of nodes created;
\* when the scan has returned, every node created is in the tree, the ids of
\* the N nodes of the tree are pairwise distinct and are exactly 0..N-1, and
\* the root has id 0, also when the metadata of a file could not be read.
C19_OncePerNode ==
    (pc = "get_file_tree" /\ pc' = "get_file_tree") =>
        /\ Len(heap') - Len(heap) \in {0, 1}
        /\ node_id_counter' - node_id_counter = Len(heap') - Len(heap)

C19_IdsAreDense ==
    /\ node_id_counter = Len(heap)
    /\ Returned =>
          LET pre == Preorder(heap, tree)
              N == Len(pre)
          IN /\ Range(pre) = 1..Len(heap)
             /\ N = Len(heap)
             /\ \A i, j \in 1..N : i # j => heap[pre[i]].id # heap[pre[j]].id
             /\ {heap[pre[i]].id : i \in 1..N} = 0..(N - 1)
             /\ heap[tree].id = 0

C19_IdsCountNodes == [][C19_OncePerNode]_vars /\ [](C19_IdsAreDense)

\* A scan has returned in which the metadata of a file could not be read,
\* before a directory and a file were given their ids.
C19_Witness ==
    /\ Returned
    /\ Len(heap) = 3 /\ DirNodes # {tree} /\ FileRecords # {}
    /\ \E i \in 1..Len(handed) : ~StatOk(handed[i])
\* ------------------------------------------------------------------------
\* C20: when the scan has returned, of any two nodes the one whose entry the
\* traversal enumerated first has the smaller id.
\* The paths in the order the traversal enumerates them: a directory, then
\* its entries in the order of os.scandir, those of a subdirectory before the
\* next entry of its parent.
RECURSIVE Discovery(_, _)
Discovery(fsv, path) ==
    <<path>> \o
    (IF path \in DOMAIN fsv
     THEN Flatten([i \in 1..Len(fsv[path].entries) |->
                LET e == fsv[path].entries[i]
                IN IF is_dir(e) THEN Discovery(fsv, Join(path, e.name))
                   ELSE IF is_file(e) THEN <<Join(path, e.name)>>
                   ELSE <<>>])
     ELSE <<>>)

Index(q, x) == CHOOSE i \in 1..Len(q) : q[i] = x

C20_IdsFollowDiscovery ==
    Returned =>
        LET disc == Discovery(fs, root_dir)
        IN \A a, b \in 1..Len(heap) :
              Index(disc, heap[a].path) < Index(disc, heap[b].path) =>
                  heap[a].id < heap[b].id
\* ------------------------------------------------------------------------
\* C21: when the scan has returned, the children of every directory node are
\* in the order in which os.scandir yielded their entries, files and
\* subdirectories alike.
\* The position of the entry of a path in the listing of its directory.
EntryPos(path) ==
    LET es == fs[Parent(path)].entries
    IN CHOOSE i \in 1..Len(es) : es[i].name = Basename(path)

C21_ChildrenInEnumerationOrder ==
    Returned =>
        \A d \in DirNodes :
            \A i, j \in 1..Len(heap[d].children) :
                i < j => EntryPos(heap[heap[d].children[i]].path)
                           < EntryPos(heap[heap[d].children[j]].path)
\* ------------------------------------------------------------------------
\* C22: the step in which the loop of add_nodes gets a subdirectory entry
\* creates the node of the subdirectory and enters add_nodes on it, leaving
\* the pending files of the parent pending; as long as an activation of
\* add_nodes has a deeper one above it, it examines no entry, its pending
\* files are not processed and its node gets no child; and in every state the
\* id of a directory is smaller than the id of every node below it.
C22_DescendsAtOnce ==
    (/\ Walking /\ TopPc = "for"
     /\ stack[Len(stack)].pos < Len(fs'[TopPath].entries)
     /\ is_dir(fs'[TopPath].entries[stack[Len(stack)].pos + 1])) =>
        LET n == Len(stack)
            e == fs'[TopPath].entries[stack[n].pos + 1]
        IN /\ Len(heap') = Len(heap) + 1
           /\ heap'[Len(heap')].type = "directory"
           /\ heap'[Len(heap')].path = Join(TopPath, e.name)
           /\ heap'[Len(heap')].id = node_id_counter
           /\ Len(stack') = n + 1
           /\ stack'[n + 1] = Frame(Len(heap'))
           /\ stack'[n] = [stack[n] EXCEPT !.pos = @ + 1, !.pc = "call"]

C22_ParentWaits ==
    (pc = "get_file_tree" /\ pc' = "get_file_tree") =>
        \A k \in 1..Len(stack) :
            (k < Len(stack) /\ k < Len(stack')) =>
                /\ stack'[k] = stack[k]
                /\ stack[k].pc = "call"
                /\ heap'[stack[k].node] = heap[stack[k].node]

C22_DirectoryIdFirst ==
    \A d \in DirNodes :
        \A n \in Range(Preorder(heap, d)) \ {d} : heap[d].id < heap[n].id

C22_DepthFirst ==
    /\ [][C22_DescendsAtOnce]_vars
    /\ [][C22_ParentWaits]_vars
    /\ [](C22_DirectoryIdFirst)

\* A file of the root is pending while a file of a subdirectory that was
\* enumerated after it is being processed.
C22_Witness ==
    /\ Walking /\ Len(stack) = 2
    /\ stack[1].pc = "call" /\ stack[1].files_to_hash # <<>>
    /\ stack[2].pc = "batch" /\ stack[2].j = 2
    /\ Len(heap) = 3
\* ------------------------------------------------------------------------
\* C23: when add_nodes returns for a directory, every regular file that its
\* loop got from os.scandir, and so appended to files_to_hash, has been
\* handed to process_file_batch exactly once, also when the enumeration ended
\* with an error.
C23_PendingFilesHanded ==
    (Walking /\ TopPc = "return") =>
        \A i \in FileEntries(TopPath) :
            Count(handed, Join(TopPath, fs[TopPath].entries[i].name)) = 1
\* ------------------------------------------------------------------------
\* C24: in every state of a scan no node is a child twice or of two nodes,
\* the root is no child, and a child was created after its parent and lies
\* directly below it, so no node is reachable from itself; an entry that is
\* a symbolic link or another thing that is neither a directory nor a regular
\* file has no node, is never listed and never handed to process_file_batch;
\* and when the scan has returned every node but the root is a child once.
ParentLinks(a) ==
    {<<d, i>> \in DirNodes \X (1..Len(heap)) :
        i <= Len(heap[d].children) /\ heap[d].children[i] = a}

Ignored ==
    {Join(d, fs[d].entries[i].name) : <<d, i>> \in
        {<<d, i>> \in (DOMAIN fs) \X (1..(MaxEntries + 1)) :
            i <= Len(fs[d].entries) /\ fs[d].entries[i].kind \notin {"dir", "file"}}}

C24_ResultIsTree ==
    /\ \A a \in 1..Len(heap) : Cardinality(ParentLinks(a)) <= 1
    /\ heap # <<>> => ParentLinks(tree) = {}
    /\ \A d \in DirNodes : \A c \in Range(heap[d].children) :
          c > d /\ Parent(heap[c].path) = heap[d].path
    /\ \A a \in 1..Len(heap) : a # tree =>
          LookupEntry(fs, heap[a].path).kind
            = (IF heap[a].type = "directory" THEN "dir" ELSE "file")
    /\ \A p \in Ignored :
          /\ \A a \in 1..Len(heap) : heap[a].path # p
          /\ p \notin DOMAIN fs
          /\ Count(handed, p) = 0
    /\ Returned =>
          \A a \in 1..Len(heap) : a # tree => Cardinality(ParentLinks(a)) = 1

\* A scan has returned that found a symbolic link, another special entry and
\* a regular file.
C24_Witness ==
    /\ Returned
    /\ \E i, j \in 1..Len(fs[RootDir].entries) :
          fs[RootDir].entries[i].kind = "symlink" /\ fs[RootDir].entries[j].kind = "other"
    /\ Len(heap) = 2 /\ FileRecords # {}
\* ------------------------------------------------------------------------
\* C25: when a scan has returned from a filesystem in which every os.scandir
\* succeeded and every enumeration ended normally, the scan of the same
\* filesystem with any other batch size records the same file paths with the
\* same flags is_duplicate, is_empty, is_old and is_large.
\* The batch sizes 1 .. number of files + 1, and the default.
OtherBatchSizes == (1..(MaxEntries + 1)) \cup BatchSizes

NoDirectoryErrors == \A d \in DOMAIN fs : fs[d].scandir_ok /\ fs[d].end = "stop"

FilesAndFlags(h) ==
    {[path |-> h[a].path, is_duplicate |-> h[a].is_duplicate, is_empty |-> h[a].is_empty,
      is_old |-> h[a].is_old, is_large |-> h[a].is_large] :
        a \in {b \in 1..Len(h) : h[b].type = "file"}}

C25_BatchSizeIndependent ==
    (Returned /\ NoDirectoryErrors) =>
        \A bs \in OtherBatchSizes :
            FilesAndFlags(Scan(fs, root_dir, bs).heap) = FilesAndFlags(heap)

\* A scan with batch size 1 has returned: it found duplicates and a
\* subdirectory, and its objects are not those of the scan with batch size 2.
C25_Witness ==
    /\ Returned /\ NoDirectoryErrors
    /\ batch_size = 1
    /\ DirNodes # {tree}
    /\ \E a \in FileRecords : heap[a].is_duplicate
    /\ Scan(fs, root_dir, 2).heap # heap
\* ------------------------------------------------------------------------
\* C26: whenever get_file_tree of main.py has returned, get_file_tree of
\* base.py on the same filesystem, with the same failures and the same batch
\* size, returns the same tree: the same node objects with the same ids,
\* children and flags, and the same duplicate index.
C26_VariantsAgree ==
    Returned =>
        LET b == base_Scan(fs, root_dir, batch_size)
        IN /\ ToJson(b.heap, b.tree) = ToJson(heap, tree)
           /\ b.heap = heap /\ b.tree = tree
           /\ b.node_id_counter = node_id_counter
           /\ b.file_hashes = file_hashes
           /\ b.duplicate_files = duplicate_files

\* The scan of main.py has returned with two files in all_files, one of them
\* without digest, and a subdirectory in the tree.
C26_Witness ==
    /\ Returned
    /\ Len(all_files) = 2
    /\ \E a \in FileRecords : DigestOf(heap[a].path) = None
    /\ DirNodes # {tree}
====
